---- MODULE Spec2Model ----
(***************************************************************************)
(* A model of loopy/kernel/array.py: the array dimension tags and their    *)
(* textual codec, the stride normalizer, the construction of an array      *)
(* descriptor (ArrayBase), the declaration planner (ArrayBase.decl_info)   *)
(* and the access planner (get_access_info).                               *)
(*                                                                         *)
(* Every Python value is a record with a field k naming its kind, so that  *)
(* None, loopy.auto, integers, symbolic expressions, tags, texts and       *)
(* raised exceptions can be compared with one another.                     *)
(***************************************************************************)
EXTENDS Integers, Sequences, FiniteSets, TLC

VARIABLES
    req,    \* the input of the run: a construction request, or a tag
    ary,    \* the outcome of ArrayBase.__init__ (a descriptor or an exception)
    txt,    \* the text a tag was printed to
    out     \* the outcome of the last operation: a planner's, the parser's

vars == <<req, ary, txt, out>>

(***************************************************************************)
(* Bounds of the model.                                                    *)
(***************************************************************************)
\* the largest number of user axes of a request
MaxAxes == 2
\* the largest integer extent of an axis, and the largest integer index
MaxExtent == 5
\* the largest number of user axes of a request that mixes stride tags
MaxMixAxes == 3

(***************************************************************************)
(* Python values.                                                          *)
(***************************************************************************)
NoneV == [k |-> "none"]
Auto == [k |-> "auto"]
NotYet == [k |-> "notyet"]

IntE(n) == [k |-> "int", v |-> n]
VarE(s) == [k |-> "var", n |-> s]

\* a raised exception: its Python class and the raise site's message
Raise(exc, msg) == [k |-> "error", exc |-> exc, msg |-> msg]

IsError(x) == x.k = "error"

\* isinstance(x, int)
IsInt(x) == x.k = "int"

\* the truth value of a Python object: 0 is false; a non-empty string and
\* the class loopy.auto are true
Truthy(x) == ~(x.k = "int" /\ x.v = 0)

(***************************************************************************)
(* Arithmetic on expressions: Python's on integers, pymbolic's operator    *)
(* overloads (which drop a neutral element) as soon as one operand is      *)
(* symbolic.                                                               *)
(***************************************************************************)
Mul(a, b) ==
    IF IsInt(a) /\ IsInt(b) THEN IntE(a.v * b.v)
    ELSE IF (IsInt(a) /\ a.v = 0) \/ (IsInt(b) /\ b.v = 0) THEN IntE(0)
    ELSE IF IsInt(a) /\ a.v = 1 THEN b
    ELSE IF IsInt(b) /\ b.v = 1 THEN a
    ELSE [k |-> "product", a |-> a, b |-> b]

Add(a, b) ==
    IF IsInt(a) /\ IsInt(b) THEN IntE(a.v + b.v)
    ELSE IF IsInt(a) /\ a.v = 0 THEN b
    ELSE IF IsInt(b) /\ b.v = 0 THEN a
    ELSE [k |-> "sum", a |-> a, b |-> b]

\* a // n for a positive integer n
FloorDiv(a, n) ==
    IF IsInt(a) THEN IntE(a.v \div n)
    ELSE IF n = 1 THEN a
    ELSE [k |-> "floordiv", a |-> a, b |-> IntE(n)]

\* pytools.div_ceil(nr, dr) == -(-nr // dr), dr a positive integer
DivCeil(nr, dr) ==
    IF IsInt(nr) /\ IsInt(dr) THEN IntE(-((-nr.v) \div dr.v))
    ELSE [k |-> "div_ceil", a |-> nr, b |-> dr]

(***************************************************************************)
(* Array dimension tags.                                                   *)
(***************************************************************************)
FixedStrideArrayDimTag(stride, target_axis) ==
    [k |-> "fixed", stride |-> stride, target_axis |-> target_axis]

ComputedStrideArrayDimTag(order, pad_to, target_axis) ==
    [k |-> "computed", order |-> order, pad_to |-> pad_to,
     target_axis |-> target_axis]

SeparateArrayArrayDimTag == [k |-> "sep"]

VectorArrayDimTag == [k |-> "vec"]

\* isinstance(dt, _StrideArrayDimTagBase)
IsStrideTag(dt) == dt.k \in {"fixed", "computed"}

\* isinstance(tag, ArrayDimImplementationTag)
IsTag(x) == x.k \in {"fixed", "computed", "sep", "vec"}

(***************************************************************************)
(* Texts are sequences of one-character strings.                           *)
(***************************************************************************)
Text(chars) == [k |-> "str", s |-> chars]

Digits == <<"0", "1", "2", "3", "4", "5", "6", "7", "8", "9">>

IsDigit(c) == \E d \in 1..10 : Digits[d] = c

DigitValue(c) == (CHOOSE d \in 1..10 : Digits[d] = c) - 1

Letters == {"a", "b", "c", "f", "i", "n", "p", "s", "C", "F"}

\* "%d" % n, n >= 0
RECURSIVE IntChars(_)
IntChars(n) ==
    IF n < 10 THEN <<Digits[n + 1]>>
    ELSE IntChars(n \div 10) \o <<Digits[(n % 10) + 1]>>

\* int(s) of a text of digits
RECURSIVE CharsInt(_)
CharsInt(s) ==
    IF Len(s) = 1 THEN DigitValue(s[1])
    ELSE 10 * CharsInt(SubSeq(s, 1, Len(s) - 1)) + DigitValue(s[Len(s)])

\* str(e) of an integer or a variable
ExprChars(e) == IF IsInt(e) THEN IntChars(e.v) ELSE <<e.n>>

StartsWith(s, prefix) ==
    Len(s) >= Len(prefix) /\ SubSeq(s, 1, Len(prefix)) = prefix

EndsWith(s, suffix) ==
    Len(s) >= Len(suffix)
    /\ SubSeq(s, Len(s) - Len(suffix) + 1, Len(s)) = suffix

\* the expression parser of loopy.symbolic: a numeral, a one-letter name;
\* any other text is a syntax error
ParseExpr(s) ==
    IF s # <<>> /\ \A j \in 1..Len(s) : IsDigit(s[j]) THEN IntE(CharsInt(s))
    ELSE IF Len(s) = 1 /\ s[1] \in Letters THEN VarE(s[1])
    ELSE Raise("ParseError", "expression")

(***************************************************************************)
(* The tag printer: the __str__ methods of the four tag classes.           *)
(***************************************************************************)
TagStr(tag) ==
    CASE tag.k = "fixed" ->
            <<"s", "t", "r", "i", "d", "e", ":">> \o ExprChars(tag.stride)
                \o <<"-", ">">> \o IntChars(tag.target_axis)
      [] tag.k = "computed" ->
            IF tag.pad_to = NoneV THEN <<tag.order>>
            ELSE <<tag.order, "(", "p", "a", "d", "=">>
                    \o ExprChars(tag.pad_to) \o <<")">>
      [] tag.k = "sep" -> <<"s", "e", "p">>
      [] tag.k = "vec" -> <<"v", "e", "c">>

(***************************************************************************)
(* The tag parser, parse_array_dim_tag.                                    *)
(***************************************************************************)
\* TARGET_AXIS_RE.search(tag): "->" and one digit at the end of the text
TargetAxisMatch(s) ==
    Len(s) >= 3 /\ s[Len(s) - 2] = "-" /\ s[Len(s) - 1] = ">"
    /\ IsDigit(s[Len(s)])

\* PADDED_STRIDE_TAG.match(tag): letters, "(pad=", anything, ")"
PaddedStrideMatch(s) ==
    \E j \in 1..Len(s) :
        /\ \A l \in 1..j : s[l] \in Letters
        /\ Len(s) >= j + 6
        /\ SubSeq(s, j + 1, j + 5) = <<"(", "p", "a", "d", "=">>
        /\ s[Len(s)] = ")"

\* the branch of parse_array_dim_tag for "stride:<expr>": the rest of the
\* text goes whole to the expression parser, the target axis is the default
ParseStrideTag(s) ==
    LET e == ParseExpr(SubSeq(s, 8, Len(s)))
    IN  IF IsError(e) THEN e ELSE FixedStrideArrayDimTag(e, 0)

\* the branches after the target axis was split off
ParseOrderTag(s, target_axis) ==
    IF s \in {<<"c">>, <<"C">>, <<"f">>, <<"F">>}
    THEN ComputedStrideArrayDimTag(
            IF s[1] \in {"c", "C"} THEN "C" ELSE "F", NoneV, target_axis)
    ELSE IF ~PaddedStrideMatch(s)
    THEN Raise("ValueError", "invalid arg dim tag")
    \* 'parse' is a local name of the function, bound only by the import in
    \* the "stride:" branch
    ELSE Raise("UnboundLocalError", "parse")

parse_array_dim_tag(tag) ==
    IF IsTag(tag) THEN tag
    ELSE IF tag.k # "str"
    THEN Raise("TypeError", "tag must be string or tag object")
    ELSE IF StartsWith(tag.s, <<"s", "t", "r", "i", "d", "e", ":">>)
    THEN ParseStrideTag(tag.s)
    ELSE IF tag.s = <<"s", "e", "p">> THEN SeparateArrayArrayDimTag
    ELSE IF tag.s = <<"v", "e", "c">> THEN VectorArrayDimTag
    ELSE IF TargetAxisMatch(tag.s)
    THEN ParseOrderTag(SubSeq(tag.s, 1, Len(tag.s) - 3),
                       DigitValue(tag.s[Len(tag.s)]))
    ELSE ParseOrderTag(tag.s, 0)

\* parse_array_dim_tags on a list: the first element that fails to parse
\* raises
RECURSIVE parse_array_dim_tags(_)
parse_array_dim_tags(dim_tags) ==
    IF dim_tags = <<>> THEN [k |-> "tags", v |-> <<>>]
    ELSE LET head == IF dim_tags[1].k = "str"
                     THEN parse_array_dim_tag(dim_tags[1])
                     ELSE dim_tags[1]
         IN  IF IsError(head) THEN head
             ELSE LET rest == parse_array_dim_tags(Tail(dim_tags))
                  IN  IF IsError(rest) THEN rest
                      ELSE [k |-> "tags", v |-> <<head>> \o rest.v]

(***************************************************************************)
(* The stride normalizer, convert_computed_to_fixed_dim_tags.              *)
(***************************************************************************)
Tags(v) == [k |-> "tags", v |-> v]

\* the bookkeeping of a plausible slip: every tag is appended
InsertComputedAppended(lst, order, i) == lst \o <<i>>

\* the first loop's bookkeeping of a ComputedStride tag at position i:
\* order C goes to the front of the target axis's list, order F to its end
InsertComputed(lst, order, i) ==
    IF order = "C" THEN <<i>> \o lst ELSE lst \o <<i>>

\* computed_stride_dim_tags[target_axis] after the first n tags
RECURSIVE ComputedIdx(_, _, _)
ComputedIdx(dim_tags, target_axis, n) ==
    IF n = 0 THEN <<>>
    ELSE LET acc == ComputedIdx(dim_tags, target_axis, n - 1)
             dt == dim_tags[n]
         IN  IF dt.k = "computed" /\ dt.target_axis = target_axis
             THEN InsertComputed(acc, dt.order, n)
             ELSE acc

\* fixed_stride_dim_tags[target_axis] after the first n tags
RECURSIVE FixedIdx(_, _, _)
FixedIdx(dim_tags, target_axis, n) ==
    IF n = 0 THEN <<>>
    ELSE LET acc == FixedIdx(dim_tags, target_axis, n - 1)
             dt == dim_tags[n]
         IN  IF dt.k = "fixed" /\ dt.target_axis = target_axis
             THEN Append(acc, n)
             ELSE acc

\* the first loop raises on the second vector-tagged axis
VectorCount(dim_tags) ==
    Cardinality({i \in 1..Len(dim_tags) : dim_tags[i].k = "vec"})

\* the folding step of a plausible slip: the extent is added, not multiplied
FoldExtentAdded(stride_so_far, extent) == Add(stride_so_far, extent)

\* the folding step: stride_so_far *= shape[i]
FoldExtent(stride_so_far, extent) == Mul(stride_so_far, extent)

\* the padding step: stride_so_far = div_ceil(stride_so_far, pad_to)
\*                                   * stride_so_far
PadStride(stride_so_far, pad_to) ==
    Mul(DivCeil(stride_so_far, pad_to), stride_so_far)

\* the tag that replaces a ComputedStride tag: the target axis is not
\* passed on, so it is the constructor's default
NewFixedTag(stride_so_far, dt) == FixedStrideArrayDimTag(stride_so_far, 0)

\* the inner loop over the ComputedStride tags of one target axis, from
\* position p of the list idx on
RECURSIVE ConvertComputed(_, _, _, _, _, _)
ConvertComputed(shape, dim_tags, idx, p, stride_so_far, new_dim_tags) ==
    IF p > Len(idx) THEN Tags(new_dim_tags)
    ELSE LET i == idx[p]
             dt == dim_tags[i]
             assigned == [new_dim_tags EXCEPT
                            ![i] = NewFixedTag(stride_so_far, dt)]
         IN  IF shape = NoneV THEN NoneV
             ELSE IF shape = Auto
             THEN Raise("TypeError", "shape is not subscriptable")
             ELSE LET folded == FoldExtent(stride_so_far, shape.v[i])
                      padded == IF dt.pad_to # NoneV
                                THEN PadStride(folded, dt.pad_to)
                                ELSE folded
                  IN  ConvertComputed(shape, dim_tags, idx, p + 1, padded,
                                      assigned)

MixedMsg == "computed and fixed stride arg dim tags may not be mixed"

\* whether the check of one target axis lets the conversion go on
MixedStrides(computed, fixed) == computed # <<>> /\ fixed # <<>>

\* the second loop, from target_axis on
RECURSIVE ConvertAxes(_, _, _, _, _)
ConvertAxes(shape, dim_tags, num_target_axes, target_axis, new_dim_tags) ==
    IF target_axis >= num_target_axes THEN Tags(new_dim_tags)
    ELSE LET computed == ComputedIdx(dim_tags, target_axis, Len(dim_tags))
             fixed == FixedIdx(dim_tags, target_axis, Len(dim_tags))
         IN  IF MixedStrides(computed, fixed)
             THEN Raise("ValueError", MixedMsg)
             ELSE IF fixed # <<>>
             THEN ConvertAxes(shape, dim_tags, num_target_axes,
                              target_axis + 1, new_dim_tags)
             ELSE LET r == ConvertComputed(shape, dim_tags, computed, 1,
                                           IntE(1), new_dim_tags)
                  IN  IF r.k # "tags" THEN r
                      ELSE ConvertAxes(shape, dim_tags, num_target_axes,
                                       target_axis + 1, r.v)

\* returns Tags(list), None (cannot normalize yet) or an exception
convert_computed_to_fixed_dim_tags(name, num_user_axes, num_target_axes, shape, dim_tags) ==
    IF VectorCount(dim_tags) > 1
    THEN Raise("ValueError", "may only have one vector-tagged dimension")
    ELSE ConvertAxes(shape, dim_tags, num_target_axes, 0, dim_tags)

(***************************************************************************)
(* Construction of an array descriptor, ArrayBase.__init__.                *)
(***************************************************************************)
Tuple(v) == [k |-> "tuple", v |-> v]

\* the record Record.__init__ stores
Descriptor(r, shape, dim_tags, order, strides) ==
    [k |-> "ArrayBase", name |-> r.name, dtype |-> r.dtype, shape |-> shape,
     dim_tags |-> dim_tags, offset |-> r.offset, order |-> order,
     strides |-> strides, min_target_axes |-> r.min_target_axes,
     max_target_axes |-> r.max_target_axes]

\* the set of target axes of the stride-bearing tags
TargetAxes(dim_tags) ==
    {dim_tags[i].target_axis :
        i \in {j \in 1..Len(dim_tags) : IsStrideTag(dim_tags[j])}}

\* target_axes != set(xrange(len(target_axes)))
NonContiguous(target_axes) ==
    target_axes # 0..(Cardinality(target_axes) - 1)

\* the two raise statements of the target axis checks format their message
\* with self.name, an attribute Record.__init__ sets only at the end of
\* __init__: evaluating the message raises AttributeError
RaiseNonContiguous == Raise("AttributeError", "name")

RaiseTargetAxisCount == Raise("AttributeError", "name")

\* from parse_array_dim_tags to the end of __init__
InitWithDimTags(r, dim_tags_in, num_user_axes, strides) ==
    LET parsed == parse_array_dim_tags(dim_tags_in)
    IN  IF IsError(parsed) THEN parsed
        ELSE LET dim_tags == parsed.v
                 target_axes == TargetAxes(dim_tags)
                 num_target_axes == Cardinality(target_axes)
             IN  IF NonContiguous(target_axes) THEN RaiseNonContiguous
                 ELSE IF ~(r.min_target_axes <= num_target_axes
                           /\ num_target_axes <= r.max_target_axes)
                 THEN RaiseTargetAxisCount
                 ELSE LET new_dim_tags ==
                              convert_computed_to_fixed_dim_tags(r.name,
                                  num_user_axes, num_target_axes, r.shape,
                                  dim_tags)
                      IN  IF IsError(new_dim_tags) THEN new_dim_tags
                          ELSE Descriptor(r, r.shape,
                                  IF new_dim_tags # NoneV
                                  THEN Tuple(new_dim_tags.v)
                                  ELSE Tuple(dim_tags),
                                  NoneV, strides)

Known(x) == x # NoneV /\ x # Auto

ArrayBaseInit(r) ==
    LET strides_known == Known(r.strides)
        shape_known == Known(r.shape)
    IN  IF r.dim_tags # NoneV /\ strides_known
        THEN Raise("TypeError", "may not specify both strides and dim_tags")
        ELSE
        LET from_strides == r.dim_tags = NoneV /\ strides_known
            dim_tags1 ==
                IF from_strides
                THEN Tags([i \in 1..Len(r.strides.v) |->
                            FixedStrideArrayDimTag(r.strides.v[i], 0)])
                ELSE r.dim_tags
            strides1 == IF from_strides THEN NoneV ELSE r.strides
        IN  IF shape_known /\ dim_tags1 # NoneV
               /\ Len(dim_tags1.v) # Len(r.shape.v)
            THEN Raise("ValueError",
                       "contradictory values for number of dimensions")
            ELSE
            LET num_user_axes ==
                    IF shape_known THEN IntE(Len(r.shape.v))
                    ELSE IF dim_tags1 # NoneV THEN IntE(Len(dim_tags1.v))
                    ELSE NoneV
                from_order == dim_tags1 = NoneV /\ num_user_axes # NoneV
                              /\ r.order # NoneV
                dim_tags2 ==
                    IF from_order
                    THEN Tags([i \in 1..num_user_axes.v |-> r.order])
                    ELSE dim_tags1
                order2 == IF from_order THEN NoneV ELSE r.order
            IN  IF dim_tags2 = NoneV
                THEN Descriptor(r, r.shape, NoneV, order2, strides1)
                ELSE InitWithDimTags(r, dim_tags2.v, num_user_axes, strides1)

(***************************************************************************)
(* Queries of a descriptor.                                                *)
(***************************************************************************)
\* a numpy dtype; count > 1 for the vector types of pyopencl.array.vec
DType(base, count) == [k |-> "dtype", base |-> base, count |-> count]

\* a Python string that names an argument
Name(s) == [k |-> "name", s |-> s]

\* ArrayBase.num_target_axes; dim_tags of None cannot be iterated
num_target_axes(a) ==
    IF a.dim_tags = NoneV
    THEN Raise("TypeError", "dim_tags is not iterable")
    ELSE IntE(Cardinality(TargetAxes(a.dim_tags.v)))

\* ArrayBase.num_user_axes(require_answer=False); len() of the class
\* loopy.auto is a TypeError
num_user_axes(a) ==
    IF a.shape = Auto THEN Raise("TypeError", "auto has no len()")
    ELSE IF a.shape # NoneV THEN IntE(Len(a.shape.v))
    ELSE IF a.dim_tags # NoneV THEN IntE(Len(a.dim_tags.v))
    ELSE NoneV

\* the lane counts pyopencl.array.vec has types for
VecCounts == {2, 3, 4, 8, 16}

\* int(vec_dtype.itemsize) // int(dtype.itemsize): a 3-vector is stored as
\* a 4-vector
VecTypeSize(count) == IF count = 3 THEN 4 ELSE count

\* ArrayBase.vector_size
vector_size(a) ==
    IF a.dim_tags = NoneV
    THEN Raise("TypeError", "dim_tags is not iterable")
    ELSE LET vecs == {i \in 1..Len(a.dim_tags.v) : a.dim_tags.v[i].k = "vec"}
         IN  IF vecs = {} THEN IntE(1)
             ELSE LET i == CHOOSE x \in vecs : \A y \in vecs : x <= y
                  IN  IF a.shape = NoneV \/ a.shape = Auto
                      THEN Raise("TypeError", "shape is not subscriptable")
                      ELSE IF ~IsInt(a.shape.v[i])
                      \* the message names user_axis, which this method
                      \* does not define
                      THEN Raise("NameError", "user_axis")
                      ELSE IF a.shape.v[i].v \notin VecCounts
                      THEN Raise("KeyError", "vec.types")
                      ELSE IntE(VecTypeSize(a.shape.v[i].v))

\* the pure functions on expressions handed to map_exprs: one doubles an
\* expression, one binds the kernel parameter n to 3
Mappers == {"double", "bind"}

Apply(mapper, e) ==
    IF mapper = "double" THEN Mul(IntE(2), e)
    ELSE IF e = VarE("n") THEN IntE(3) ELSE e

\* dt.map_expr(mapper) of the four tag classes
map_expr(dt, mapper) ==
    IF dt.k = "fixed"
    THEN FixedStrideArrayDimTag(Apply(mapper, dt.stride), dt.target_axis)
    ELSE IF dt.k = "computed"
    THEN Raise("TypeError", "ComputedStrideArrayDimTag is a transient type")
    ELSE dt

\* ArrayBase.map_exprs: the mapped shape and tags replace the fields of
\* self in a copy, and Record.copy constructs the copy by calling the class
\* with the fields, i.e. runs ArrayBase.__init__ on them
map_exprs(a, mapper) ==
    LET shape == IF Known(a.shape)
                 THEN Tuple([i \in 1..Len(a.shape.v) |->
                                Apply(mapper, a.shape.v[i])])
                 ELSE a.shape
        mapped == IF a.dim_tags = NoneV THEN <<>>
                  ELSE [i \in 1..Len(a.dim_tags.v) |->
                            map_expr(a.dim_tags.v[i], mapper)]
        failed == {i \in 1..Len(mapped) : IsError(mapped[i])}
    IN  IF failed # {}
        THEN mapped[CHOOSE i \in failed : \A j \in failed : i <= j]
        ELSE ArrayBaseInit(
                [name |-> a.name, dtype |-> a.dtype, shape |-> shape,
                 dim_tags |-> IF a.dim_tags = NoneV THEN NoneV
                              ELSE Tags(mapped),
                 offset |-> a.offset, strides |-> a.strides,
                 order |-> a.order, min_target_axes |-> a.min_target_axes,
                 max_target_axes |-> a.max_target_axes])

(***************************************************************************)
(* The declaration planner, ArrayBase.decl_info: a generator.  Its outcome *)
(* is the sequence of the pairs it yields and the exception that ends it,  *)
(* or None.                                                                *)
(***************************************************************************)
Yielded(v, err) == [k |-> "decls", v |-> v, err |-> err]

\* the pair yielded for an array argument; get_arg_decl is the subclass's
MainDecl(a, name_suffix, shape, strides, dtype, is_written) ==
    [decl |-> [k |-> "arg_decl", name_suffix |-> name_suffix,
               shape |-> shape, dtype |-> dtype, is_written |-> is_written],
     name |-> a.name \o name_suffix, base_name |-> Name(a.name),
     dtype |-> dtype, shape |-> Tuple(shape), strides |-> Tuple(strides),
     offset_for_name |-> NoneV]

\* the pair yielded for the offset of an array argument
OffsetDecl(a, name_suffix, index_dtype) ==
    [decl |-> [k |-> "const_pod", dtype |-> index_dtype,
               name |-> a.name \o name_suffix \o "_offset"],
     name |-> a.name \o name_suffix \o "_offset", base_name |-> NoneV,
     dtype |-> index_dtype, shape |-> NoneV, strides |-> NoneV,
     offset_for_name |-> Name(a.name \o name_suffix)]

\* "_s%d" % i
SplitSuffix(i) == "_s" \o ToString(i)

\* a variant in which the call for index 0 yields a declaration and only
\* the later calls are refused
SplitCallRefusedLater(a, vector_size_, is_written, index_dtype, name_suffix, shape, dtype, user_index) ==
    IF user_index[Len(user_index)] = IntE(0)
    THEN Yielded(<<MainDecl(a, name_suffix, shape, <<>>, dtype, is_written)>>,
                 NoneV)
    ELSE Yielded(<<>>, Raise("TypeError", "gen_decls() takes 5 arguments"))

\* the recursive call of the separate-array branch: it passes four
\* arguments (name_suffix, shape, dtype, user_index) to the five parameters
\* of gen_decls, which Python refuses when the call is made
SplitCall(a, vector_size_, is_written, index_dtype, name_suffix, shape, dtype, user_index) ==
    Yielded(<<>>, Raise("TypeError", "gen_decls() takes 5 arguments"))

\* for i in xrange(shape_i): the pairs of the calls, up to the first
\* exception
RECURSIVE SplitLoop(_, _, _, _, _, _, _, _, _, _, _)
SplitLoop(a, vector_size_, is_written, index_dtype, name_suffix, shape, dtype, user_index, i, shape_i, acc) ==
    IF i >= shape_i THEN Yielded(acc, NoneV)
    ELSE LET r == SplitCall(a, vector_size_, is_written, index_dtype,
                            name_suffix \o SplitSuffix(i), shape, dtype,
                            Append(user_index, IntE(i)))
         IN  IF r.err # NoneV THEN Yielded(acc \o r.v, r.err)
             ELSE SplitLoop(a, vector_size_, is_written, index_dtype,
                            name_suffix, shape, dtype, user_index, i + 1,
                            shape_i, acc \o r.v)

NonConstantAxis == Raise("RuntimeError", "shape has non-constant integer axis")

UnsupportedTag ==
    Raise("RuntimeError", "unsupported array dim implementation tag")

RECURSIVE gen_decls(_, _, _, _, _, _, _, _, _)
gen_decls(a, vector_size_, is_written, index_dtype, name_suffix, shape, strides, dtype, user_index) ==
    LET user_axis == Len(user_index)
        nua == num_user_axes(a)
    IN  IF IsError(nua) THEN Yielded(<<>>, nua)
        ELSE IF nua = NoneV \/ user_axis >= nua.v
        THEN Yielded(
                <<MainDecl(a, name_suffix, shape, strides, dtype,
                           is_written)>>
                \o (IF Truthy(a.offset)
                    THEN <<OffsetDecl(a, name_suffix, index_dtype)>>
                    ELSE <<>>),
                NoneV)
        ELSE IF a.dim_tags = NoneV
        THEN Yielded(<<>>, Raise("TypeError", "dim_tags is not subscriptable"))
        ELSE
        LET dim_tag == a.dim_tags.v[user_axis + 1]
        IN  CASE dim_tag.k = "fixed" ->
                    gen_decls(a, vector_size_, is_written, index_dtype,
                        name_suffix,
                        Append(shape, IF a.shape = NoneV THEN NoneV
                                      ELSE a.shape.v[user_axis + 1]),
                        Append(strides,
                               FloorDiv(dim_tag.stride, vector_size_)),
                        dtype, Append(user_index, NoneV))
              [] dim_tag.k = "sep" ->
                    IF a.shape = NoneV
                    THEN Yielded(<<>>,
                            Raise("TypeError", "shape is not subscriptable"))
                    ELSE IF ~IsInt(a.shape.v[user_axis + 1])
                    THEN Yielded(<<>>, NonConstantAxis)
                    ELSE SplitLoop(a, vector_size_, is_written, index_dtype,
                            name_suffix, shape, dtype, user_index, 0,
                            a.shape.v[user_axis + 1].v, <<>>)
              [] dim_tag.k = "vec" ->
                    IF a.shape = NoneV
                    THEN Yielded(<<>>,
                            Raise("TypeError", "shape is not subscriptable"))
                    ELSE IF ~IsInt(a.shape.v[user_axis + 1])
                    THEN Yielded(<<>>, NonConstantAxis)
                    ELSE IF a.shape.v[user_axis + 1].v \notin VecCounts
                    THEN Yielded(<<>>, Raise("KeyError", "vec.types"))
                    ELSE gen_decls(a, vector_size_, is_written, index_dtype,
                            name_suffix, shape, strides,
                            DType(dtype.base, a.shape.v[user_axis + 1].v),
                            Append(user_index, NoneV))
              [] OTHER -> Yielded(<<>>, UnsupportedTag)

decl_info(a, is_written, index_dtype) ==
    LET vs == vector_size(a)
    IN  IF IsError(vs) THEN Yielded(<<>>, vs)
        ELSE gen_decls(a, vs.v, is_written, index_dtype,
                       "", <<>>, <<>>, a.dtype, <<>>)

(***************************************************************************)
(* The access planner, get_access_info.                                    *)
(***************************************************************************)
\* the evaluator handed to get_access_info: an integer constant evaluates
\* to itself, a name stays an expression
eval_expr(idx) == idx

\* the check of the subscript's length against the shape's
\* a variant that only notices a subscript that is too long
WrongArityOnlyLonger(shape, index) == Len(shape) < Len(index)

WrongArity(shape, index) == Len(shape) # Len(index)

SubscriptArityMismatch(got, expected) ==
    [k |-> "error", exc |-> "RuntimeError",
     msg |-> "subscript has the wrong number of indices",
     got |-> got, expected |-> expected]

MisalignedVectorStride ==
    Raise("RuntimeError", "stride is not a multiple of the vector axis")

NonConstantIndex ==
    Raise("RuntimeError", "subscript has non-constant index")

\* the state of the loop over the user axes
Loop(array_suffix, vector_index, subscripts) ==
    [k |-> "loop", array_suffix |-> array_suffix,
     vector_index |-> vector_index, subscripts |-> subscripts]

\* one iteration of the loop, for user axis i (1-based) with index idx
AccessAxis(st, dim_tag, idx, vector_size_) ==
    CASE dim_tag.k = "fixed" ->
            IF IsInt(dim_tag.stride) /\ dim_tag.stride.v % vector_size_ # 0
            THEN MisalignedVectorStride
            ELSE IF dim_tag.target_axis >= Len(st.subscripts)
            THEN Raise("IndexError", "list index out of range")
            ELSE Loop(st.array_suffix, st.vector_index,
                    [st.subscripts EXCEPT ![dim_tag.target_axis + 1] =
                        Add(@, Mul(FloorDiv(dim_tag.stride, vector_size_),
                                   idx))])
      [] dim_tag.k = "sep" ->
            IF ~IsInt(eval_expr(idx)) THEN NonConstantIndex
            ELSE Loop(st.array_suffix \o SplitSuffix(eval_expr(idx).v),
                      st.vector_index, st.subscripts)
      [] dim_tag.k = "vec" ->
            IF ~IsInt(eval_expr(idx)) THEN NonConstantIndex
            ELSE IF st.vector_index # NoneV
            THEN Raise("AssertionError", "vector_index is None")
            ELSE Loop(st.array_suffix, eval_expr(idx), st.subscripts)
      [] OTHER -> UnsupportedTag

\* the loop from user axis i on; an exception ends it
RECURSIVE AccessLoop(_, _, _, _, _)
AccessLoop(st, dim_tags, index, vector_size_, i) ==
    IF i > Len(index) \/ i > Len(dim_tags) THEN st
    ELSE LET r == AccessAxis(st, dim_tags[i], index[i], vector_size_)
         IN  IF IsError(r) THEN r
             ELSE AccessLoop(r, dim_tags, index, vector_size_, i + 1)

\* the name of the offset argument
\* a variant that leaves the suffix out of the synthesized name
OffsetNameUnsuffixed(a, array_suffix) ==
    IF a.offset = Auto THEN a.name \o "_offset"
    ELSE a.offset.s

OffsetName(a, array_suffix) ==
    IF a.offset = Auto THEN a.name \o array_suffix \o "_offset"
    ELSE a.offset.s

\* the part after the loop: the offset
AddOffset(a, st, num_target_axes_) ==
    IF ~Truthy(a.offset) THEN st
    ELSE IF num_target_axes_ > 1
    THEN Raise("NotImplementedError", "offsets for multiple image axes")
    ELSE IF Len(st.subscripts) = 0
    THEN Raise("IndexError", "list index out of range")
    ELSE Loop(st.array_suffix, st.vector_index,
              [st.subscripts EXCEPT ![1] =
                  Add(VarE(OffsetName(a, st.array_suffix)), @)])

\* the record returned for an array without a shape
ShapelessAccess(index) ==
    [k |-> "AccessInfo", subscripts |-> index, vector_index |-> IntE(0)]

AccessInfo(array_suffix, vector_index, subscripts) ==
    [k |-> "AccessInfo", array_suffix |-> array_suffix,
     vector_index |-> vector_index, subscripts |-> subscripts]

\* index is a tuple of expressions, or one expression
get_access_info(a, index_in) ==
    LET index == IF index_in.k = "tuple" THEN index_in.v ELSE <<index_in>>
    IN  IF a.shape = NoneV THEN ShapelessAccess(index)
        ELSE IF a.shape = Auto THEN Raise("TypeError", "auto has no len()")
        ELSE IF WrongArity(a.shape.v, index)
        THEN SubscriptArityMismatch(Len(index), Len(a.shape.v))
        ELSE
        LET nta == num_target_axes(a)
            vs == vector_size(a)
        IN  IF IsError(nta) THEN nta
            ELSE IF IsError(vs) THEN vs
            ELSE
            LET looped == AccessLoop(
                              Loop("", NoneV, [t \in 1..nta.v |-> IntE(0)]),
                              a.dim_tags.v, index, vs.v, 1)
            IN  IF IsError(looped) THEN looped
                ELSE LET st == AddOffset(a, looped, nta.v)
                     IN  IF IsError(st) THEN st
                         ELSE AccessInfo(st.array_suffix, st.vector_index,
                                         st.subscripts)

(***************************************************************************)
(* Inputs.                                                                 *)
(***************************************************************************)

\* sequences over S of length at most n
SeqsUpTo(S, n) == UNION {[1..m -> S] : m \in 0..n}

\* axis extents and strides: integers and a kernel parameter
Extents == {IntE(e) : e \in 0..MaxExtent} \cup {VarE("n")}

\* array kinds by their bounds on the number of target axes: buffers have
\* exactly one, images up to three
Kinds == {[min |-> 1, max |-> 1], [min |-> 1, max |-> 3]}

Request(shape, dim_tags, strides, order, offset, kind) ==
    [name |-> "a", dtype |-> DType("float32", 1), shape |-> shape,
     dim_tags |-> dim_tags, offset |-> offset, strides |-> strides,
     order |-> order, min_target_axes |-> kind.min,
     max_target_axes |-> kind.max]

\* the shapes tried with a list of n tags: none, auto, every tuple of n
\* extents, and one tuple that is one axis longer
ShapesFor(n, extents) ==
    {NoneV, Auto} \cup {Tuple(v) : v \in [1..n -> extents]}
        \cup {Tuple([i \in 1..(n + 1) |-> IntE(1)])}

\* the tags of the requests that exercise the normalizer
NormTags ==
    {ComputedStrideArrayDimTag(o, p, t) :
        o \in {"C", "F"}, p \in {NoneV, IntE(2)}, t \in {0, 1}}
    \cup {FixedStrideArrayDimTag(IntE(1), t) : t \in {0, 1}}
    \cup {SeparateArrayArrayDimTag, VectorArrayDimTag}

\* the request is one that gives dim_tags: a list of at most max_axes tags
\* of the alphabet
DrawTagRequest(alphabet, extents, kinds, offsets, max_axes) ==
    \E n \in 0..max_axes :
        \E tags \in [1..n -> alphabet], shape \in ShapesFor(n, extents),
           offset \in offsets, kind \in kinds :
            req = Request(shape, Tags(tags), NoneV, NoneV, offset, kind)

\* the request is one that gives strides or an order instead of dim_tags,
\* or both strides and dim_tags
DrawOtherRequest(kinds) ==
    \/ \E n \in 0..MaxAxes :
        \E shape \in ShapesFor(n, Extents), kind \in kinds,
           strides \in {NoneV, Auto, Tuple([i \in 1..n |-> IntE(1)])},
           order \in {NoneV, Text(<<"C">>), Text(<<"F">>)} :
            req = Request(shape, NoneV, strides, order, IntE(0), kind)
    \/ \E kind \in kinds :
            req = Request(NoneV, Tags(<<SeparateArrayArrayDimTag>>),
                          Tuple(<<IntE(1)>>), NoneV, IntE(0), kind)

(***************************************************************************)
(* The state machine: a request is drawn, the descriptor is constructed.   *)
(***************************************************************************)
Init ==
    /\ \/ DrawTagRequest(NormTags, Extents, Kinds, {IntE(0)}, MaxAxes)
       \/ DrawOtherRequest(Kinds)
    /\ ary = NotYet
    /\ txt = NotYet
    /\ out = NotYet

\* ArrayBase.__init__
New ==
    /\ ary = NotYet
    /\ ary' = ArrayBaseInit(req)
    /\ UNCHANGED <<req, txt, out>>

Next == New

Spec == Init /\ [][Next]_vars

(***************************************************************************)
(* Requests over several target axes, with fixed and computed strides on   *)
(* them and every kind of shape.                                           *)
(***************************************************************************)
MixTags ==
    {ComputedStrideArrayDimTag("C", NoneV, t) : t \in {0, 1}}
    \cup {FixedStrideArrayDimTag(IntE(1), t) : t \in {0, 1, 2}}

InitMix ==
    /\ DrawTagRequest(MixTags, Extents, {[min |-> 1, max |-> 3]},
                      {IntE(0)}, MaxMixAxes)
    /\ ary = NotYet
    /\ txt = NotYet
    /\ out = NotYet

SpecMix == InitMix /\ [][Next]_vars

(***************************************************************************)
(* The planners: a descriptor is constructed, then its declarations are    *)
(* planned or a subscript is planned against it.                           *)
(***************************************************************************)
\* the tags of the requests handed to the planners; the ComputedStride tag
\* stays in the descriptor when the normalization is deferred
PlanTags ==
    {FixedStrideArrayDimTag(e, 0) : e \in {IntE(1), IntE(2), VarE("s")}}
    \cup {FixedStrideArrayDimTag(IntE(1), 1), SeparateArrayArrayDimTag,
          VectorArrayDimTag, ComputedStrideArrayDimTag("C", NoneV, 0)}

\* extents of the planned arrays: an empty axis, lane counts with and
\* without a vector type, a kernel parameter
PlanExtents == {IntE(0), IntE(2), IntE(3), VarE("n")}

\* the offsets of a descriptor: 0, an argument name, loopy.auto
Offsets == {IntE(0), Name("off"), Auto}

\* the indices of a subscript
Indices == {IntE(0), IntE(1), VarE("i")}

InitPlan ==
    /\ DrawTagRequest(PlanTags, PlanExtents, {[min |-> 1, max |-> 3]},
                      Offsets, MaxAxes)
    /\ ary = NotYet
    /\ txt = NotYet
    /\ out = NotYet

\* the number of axes the descriptor is declared with (0 when unknown)
DeclaredAxes(a) ==
    IF Known(a.shape) THEN Len(a.shape.v)
    ELSE IF a.dim_tags # NoneV THEN Len(a.dim_tags.v)
    ELSE 0

\* the subscripts tried against a descriptor of n declared axes: a single
\* expression, the tuples of n indices, of one index less and, for a
\* descriptor without a shape, of one index more
SubscriptsFor(a) ==
    LET n == DeclaredAxes(a)
        lengths == {m \in {n - 1, n} : m >= 0}
                   \cup (IF a.shape = NoneV THEN {n + 1} ELSE {})
    IN  UNION {{Tuple(v) : v \in [1..m -> Indices]} : m \in lengths}
        \cup Indices

\* ArrayBase.decl_info, run to its end
DeclInfo ==
    /\ ary.k = "ArrayBase"
    /\ out = NotYet
    /\ \E is_written \in BOOLEAN :
          out' = [k |-> "decl_info", is_written |-> is_written,
                  res |-> decl_info(ary, is_written, DType("int32", 1))]
    /\ UNCHANGED <<req, ary, txt>>

\* get_access_info
GetAccessInfo ==
    /\ ary.k = "ArrayBase"
    /\ out = NotYet
    /\ \E index \in SubscriptsFor(ary) :
          out' = [k |-> "access", index |-> index,
                  res |-> get_access_info(ary, index)]
    /\ UNCHANGED <<req, ary, txt>>

NextPlan == New \/ DeclInfo \/ GetAccessInfo

SpecPlan == InitPlan /\ [][NextPlan]_vars

(***************************************************************************)
(* The planners on image-like arrays: strides, fixed and computed, on up   *)
(* to three target axes.                                                   *)
(***************************************************************************)
ImageTags ==
    {ComputedStrideArrayDimTag("C", NoneV, t) : t \in {0, 1}}
    \cup {FixedStrideArrayDimTag(IntE(1), t) : t \in {0, 1, 2}}

InitImage ==
    /\ DrawTagRequest(ImageTags, {IntE(2)}, {[min |-> 1, max |-> 3]},
                      {IntE(0)}, MaxMixAxes)
    /\ ary = NotYet
    /\ txt = NotYet
    /\ out = NotYet

SpecImage == InitImage /\ [][NextPlan]_vars

(***************************************************************************)
(* Expression mapping: a descriptor is constructed, then its expressions   *)
(* are mapped, and the expressions of the result are mapped again.         *)
(***************************************************************************)
\* the largest number of successive map_exprs calls
MaxMaps == 2

MapTags ==
    {FixedStrideArrayDimTag(e, 0) : e \in {IntE(2), VarE("n")}}
    \cup {FixedStrideArrayDimTag(IntE(1), t) : t \in {1, 2}}
    \cup {ComputedStrideArrayDimTag("C", NoneV, t) : t \in {0, 1}}
    \cup {SeparateArrayArrayDimTag, VectorArrayDimTag}

MapExtents == {IntE(2), VarE("n")}

InitMap ==
    /\ DrawTagRequest(MapTags, MapExtents, Kinds, {IntE(0), Auto},
                      MaxMixAxes)
    /\ ary = NotYet
    /\ txt = NotYet
    /\ out = NotYet

\* the descriptor the next map_exprs call is made on, and the number of
\* calls made
Mapped == IF out.k = "mapped" THEN out.res ELSE ary

Maps == IF out.k = "mapped" THEN out.n ELSE 0

\* ary.map_exprs(mapper), or map_exprs on the descriptor the last call
\* returned
MapExprs ==
    /\ ary.k = "ArrayBase"
    /\ Mapped.k = "ArrayBase"
    /\ Maps < MaxMaps
    /\ \E mapper \in Mappers :
          out' = [k |-> "mapped", mapper |-> mapper, src |-> Mapped,
                  n |-> Maps + 1, res |-> map_exprs(Mapped, mapper)]
    /\ UNCHANGED <<req, ary, txt>>

NextMap == New \/ MapExprs

SpecMap == InitMap /\ [][NextMap]_vars

(***************************************************************************)
(* The tag codec: a tag is printed and the text parsed, or a text of the   *)
(* user's is parsed.                                                       *)
(***************************************************************************)
\* the tags that are printed
CodecTags ==
    {FixedStrideArrayDimTag(e, t) : e \in Extents, t \in 0..2}
    \cup {ComputedStrideArrayDimTag(o, p, t) :
            o \in {"C", "F"}, p \in {NoneV} \cup Extents, t \in 0..2}
    \cup {SeparateArrayArrayDimTag, VectorArrayDimTag}

\* texts a user may write
UserTexts ==
    {Text(s) : s \in {
        <<"c">>, <<"F">>, <<"C", "-", ">", "1">>, <<"s", "e", "p">>,
        <<"v", "e", "c">>, <<"v", "e", "c", "-", ">", "1">>,
        <<"s", "t", "r", "i", "d", "e", ":", "1", "2">>,
        <<"s", "t", "r", "i", "d", "e", ":", "n">>,
        <<"s", "t", "r", "i", "d", "e", ":", "2", "-", ">", "1">>,
        <<"F", "(", "p", "a", "d", "=", "2", ")">>,
        <<"c", "(", "p", "a", "d", "=", "n", ")", "-", ">", "1">>,
        <<"b", "(", "p", "a", "d", "=", "2", ")">>,
        <<"b">>, <<>>}}

InitTags ==
    /\ req \in CodecTags \cup UserTexts
    /\ ary = NotYet
    /\ txt = NotYet
    /\ out = NotYet

\* str(tag)
Str ==
    /\ IsTag(req)
    /\ txt = NotYet
    /\ txt' = Text(TagStr(req))
    /\ UNCHANGED <<req, ary, out>>

\* parse_array_dim_tag on the printed text
ParsePrinted ==
    /\ txt # NotYet
    /\ out = NotYet
    /\ out' = parse_array_dim_tag(txt)
    /\ UNCHANGED <<req, ary, txt>>

\* parse_array_dim_tag on a text of the user's
ParseText ==
    /\ req.k = "str"
    /\ out = NotYet
    /\ out' = parse_array_dim_tag(req)
    /\ UNCHANGED <<req, ary, txt>>

NextTags == Str \/ ParsePrinted \/ ParseText

SpecTags == InitTags /\ [][NextTags]_vars

(***************************************************************************)
(* Notions the properties are stated with.                                 *)
(***************************************************************************)
\* a shape that is a tuple of integers
IsIntShape(shape) ==
    shape.k = "tuple" /\ \A i \in 1..Len(shape.v) : IsInt(shape.v[i])

\* the product of the extents lo..hi of a tuple of integers
RECURSIVE Prod(_, _, _)
Prod(v, lo, hi) == IF lo > hi THEN 1 ELSE v[lo].v * Prod(v, lo + 1, hi)

\* the request gives a list of tag objects and nothing that fails before
\* the target axes are looked at
PlainTagRequest ==
    /\ req.dim_tags # NoneV
    /\ \A i \in 1..Len(req.dim_tags.v) : IsTag(req.dim_tags.v[i])
    /\ ~Known(req.strides)
    /\ Known(req.shape) => Len(req.shape.v) = Len(req.dim_tags.v)

\* the positions of the ComputedStride tags of target axis t
ComputedGroup(tags, t) ==
    {i \in 1..Len(tags) : tags[i].k = "computed" /\ tags[i].target_axis = t}

Min(S) == CHOOSE x \in S : \A y \in S : x <= y

Max(S) == CHOOSE x \in S : \A y \in S : x >= y

\* the stride the constructed descriptor holds for user axis i
StrideOf(i) == ary.dim_tags.v[i].stride.v

\* the request was normalized with integer strides throughout
NormalizedInts ==
    /\ PlainTagRequest
    /\ IsIntShape(req.shape)
    /\ ary.k = "ArrayBase"

(***************************************************************************)
(* C1: with an all-integer shape and only unpadded ComputedStride tags on  *)
(* target axis 0, the normalized strides are row-major when every order is *)
(* C (the stride of an axis is the product of the later extents) and       *)
(* column-major when every order is F (the product of the earlier ones).   *)
(***************************************************************************)
C1_RowAndColumnMajor ==
    (ary # NotYet /\ PlainTagRequest /\ IsIntShape(req.shape)
     /\ Len(req.dim_tags.v) >= 1)
    => LET tags == req.dim_tags.v
           n == Len(tags)
           AllOf(o) == \A i \in 1..n :
                           tags[i] = ComputedStrideArrayDimTag(o, NoneV, 0)
       IN  /\ AllOf("C") =>
                /\ ary.k = "ArrayBase"
                /\ ary.dim_tags = Tuple([i \in 1..n |->
                      FixedStrideArrayDimTag(
                          IntE(Prod(req.shape.v, i + 1, n)), 0)])
           /\ AllOf("F") =>
                /\ ary.k = "ArrayBase"
                /\ ary.dim_tags = Tuple([i \in 1..n |->
                      FixedStrideArrayDimTag(
                          IntE(Prod(req.shape.v, 1, i - 1)), 0)])

\* shape (4,5) with tags C, C was normalized to the strides 5, 1
C1_Witness ==
    /\ req.shape = Tuple(<<IntE(4), IntE(5)>>)
    /\ req.dim_tags = Tags(<<ComputedStrideArrayDimTag("C", NoneV, 0),
                             ComputedStrideArrayDimTag("C", NoneV, 0)>>)
    /\ ary.k = "ArrayBase"
    /\ ary.dim_tags = Tuple(<<FixedStrideArrayDimTag(IntE(5), 0),
                              FixedStrideArrayDimTag(IntE(1), 0)>>)

(***************************************************************************)
(* C2 as stated: among the ComputedStride tags of one target axis, all of  *)
(* positive integer extent, with order C the first-declared axis has the   *)
(* smallest stride, with order F the last-declared one.                    *)
(***************************************************************************)
C2_FirstDeclaredSmallestForC ==
    NormalizedInts =>
        \A t \in 0..2 :
            LET tags == req.dim_tags.v
                G == ComputedGroup(tags, t)
            IN  (G # {} /\ \A i \in G : req.shape.v[i].v >= 1) =>
                /\ (\A i \in G : tags[i].order = "C")
                      => \A j \in G : StrideOf(Min(G)) <= StrideOf(j)
                /\ (\A i \in G : tags[i].order = "F")
                      => \A j \in G : StrideOf(Max(G)) <= StrideOf(j)

(***************************************************************************)
(* C2 as amended: among the ComputedStride tags of one target axis, all of *)
(* positive integer extent, with order C the last-declared axis has the    *)
(* smallest stride, with order F the first-declared one; that stride is 1. *)
(***************************************************************************)
C2_LastDeclaredSmallestForC ==
    NormalizedInts =>
        \A t \in 0..2 :
            LET tags == req.dim_tags.v
                G == ComputedGroup(tags, t)
            IN  (G # {} /\ \A i \in G : req.shape.v[i].v >= 1) =>
                /\ (\A i \in G : tags[i].order = "C")
                      => /\ StrideOf(Max(G)) = 1
                         /\ \A j \in G : StrideOf(Max(G)) <= StrideOf(j)
                /\ (\A i \in G : tags[i].order = "F")
                      => /\ StrideOf(Min(G)) = 1
                         /\ \A j \in G : StrideOf(Min(G)) <= StrideOf(j)

\* shape (2,3) with tags F, F was normalized: the first axis has stride 1,
\* the second the larger stride 2
C2_Witness ==
    /\ NormalizedInts
    /\ req.shape = Tuple(<<IntE(2), IntE(3)>>)
    /\ \A i \in 1..2 :
          req.dim_tags.v[i] = ComputedStrideArrayDimTag("F", NoneV, 0)
    /\ StrideOf(1) = 1
    /\ StrideOf(2) = 2

(***************************************************************************)
(* C3: the axis processed right after an axis padded to p gets the         *)
(* smallest multiple of p that is at least running stride * extent.        *)
(***************************************************************************)
C3_PaddedStrideIsMultiple ==
    NormalizedInts =>
        \A t \in 0..2 :
            LET tags == req.dim_tags.v
                idx == ComputedIdx(tags, t, Len(tags))
            IN  \A q \in 1..(Len(idx) - 1) :
                    tags[idx[q]].pad_to # NoneV =>
                        LET p == tags[idx[q]].pad_to.v
                            s == StrideOf(idx[q]) * req.shape.v[idx[q]].v
                        IN  /\ StrideOf(idx[q + 1]) % p = 0
                            /\ StrideOf(idx[q + 1]) = ((s + p - 1) \div p) * p

(***************************************************************************)
(* C4: a request with a FixedStride and a ComputedStride tag on the same   *)
(* target axis fails with the error of the mixing check, whatever the      *)
(* order of the tags, the number of target axes and the shape.             *)
(***************************************************************************)
ConflictingStrideSpecification == Raise("ValueError", MixedMsg)

\* the request passes every check made before the stride normalizer's
MixCheckReached ==
    /\ PlainTagRequest
    /\ req.shape # Auto
    /\ ~NonContiguous(TargetAxes(req.dim_tags.v))
    /\ Cardinality(TargetAxes(req.dim_tags.v)) \in
          req.min_target_axes..req.max_target_axes
    /\ VectorCount(req.dim_tags.v) <= 1

C4_MixedStridesRejected ==
    (ary # NotYet /\ MixCheckReached
     /\ \E i, j \in 1..Len(req.dim_tags.v) :
            /\ req.dim_tags.v[i].k = "fixed"
            /\ req.dim_tags.v[j].k = "computed"
            /\ req.dim_tags.v[i].target_axis = req.dim_tags.v[j].target_axis)
    => ary = ConflictingStrideSpecification

(***************************************************************************)
(* C7: a request whose stride-bearing tags do not use exactly the target   *)
(* axes 0..k-1 fails with the error of the contiguity check, and every     *)
(* constructed descriptor with dim tags uses exactly the target axes       *)
(* 0..num_target_axes-1.                                                   *)
(***************************************************************************)
NonContiguousTargetAxes ==
    Raise("ValueError", "target axes are non-contiguous")

C7_NonContiguousRejected ==
    (ary # NotYet /\ PlainTagRequest) =>
        /\ NonContiguous(TargetAxes(req.dim_tags.v))
              => ary = NonContiguousTargetAxes
        /\ ary.k = "ArrayBase" =>
              LET used == TargetAxes(ary.dim_tags.v)
              IN  used = 0..(Cardinality(used) - 1)

(***************************************************************************)
(* C5: printing a non-transient tag (FixedStride, Split, VectorLane) and   *)
(* parsing the text gives the tag back, its target axis included.          *)
(***************************************************************************)
C5_PrintParseRoundTrip ==
    (IsTag(req) /\ req.k # "computed" /\ out # NotYet) => out = req

(***************************************************************************)
(* Notions the planners' properties are stated with.                       *)
(***************************************************************************)
\* the length of the subscript of the planned access
IndexLen == IF out.index.k = "tuple" THEN Len(out.index.v) ELSE 1

\* the subscript of the planned access as a sequence
IndexSeq == IF out.index.k = "tuple" THEN out.index.v ELSE <<out.index>>

\* the product of the extents of the separate-array axes
RECURSIVE SplitProduct(_, _, _)
SplitProduct(tags, shape, i) ==
    IF i > Len(tags) THEN 1
    ELSE (IF tags[i].k = "sep" THEN shape[i].v ELSE 1)
         * SplitProduct(tags, shape, i + 1)

\* the suffix the separate-array axes give a subscript of integer indices
RECURSIVE SplitSuffixOf(_, _, _)
SplitSuffixOf(tags, index, i) ==
    IF i > Len(tags) THEN ""
    ELSE (IF tags[i].k = "sep" THEN "_s" \o ToString(index[i].v) ELSE "")
         \o SplitSuffixOf(tags, index, i + 1)

\* the names an expression mentions
RECURSIVE VarsOf(_)
VarsOf(e) ==
    CASE e.k = "int" -> {}
      [] e.k = "var" -> {e.n}
      [] OTHER -> VarsOf(e.a) \cup VarsOf(e.b)

\* the pairs of the planned declarations that declare an array
MainDecls(v) == {j \in 1..Len(v) : v[j].offset_for_name = NoneV}

(***************************************************************************)
(* C6: for a descriptor with an integer shape and only FixedStride and     *)
(* Split axes the declaration planner completes, and the number of array   *)
(* declarations it yields is the product of the extents of the Split axes. *)
(***************************************************************************)
C6_DeclarationsPerSplitIndex ==
    (out.k = "decl_info" /\ IsIntShape(ary.shape)
     /\ \A i \in 1..Len(ary.dim_tags.v) :
            ary.dim_tags.v[i].k \in {"fixed", "sep"})
    => /\ out.res.err = NoneV
       /\ Cardinality(MainDecls(out.res.v))
            = SplitProduct(ary.dim_tags.v, ary.shape.v, 1)

(***************************************************************************)
(* C8: against a descriptor with a shape, a subscript whose length differs *)
(* from the shape's fails with the arity error, which carries both counts; *)
(* no other check or per-axis step comes first.                            *)
(***************************************************************************)
C8_ArityMismatchRejected ==
    (out.k = "access" /\ ary.shape.k = "tuple"
     /\ IndexLen # Len(ary.shape.v))
    => out.res = SubscriptArityMismatch(IndexLen, Len(ary.shape.v))

\* a subscript of one index was planned against a shape of two axes
C8_Witness ==
    /\ out.k = "access"
    /\ ary.shape.k = "tuple"
    /\ Len(ary.shape.v) = 2
    /\ IndexLen = 1
    /\ out.res.k = "error"
    /\ out.res.got = 1
    /\ out.res.expected = 2

(***************************************************************************)
(* C9: when the subscript fits the shape and the per-axis steps succeed,   *)
(* a non-zero offset with more than one target axis fails with the error   *)
(* of the offset step; otherwise a non-zero offset adds the offset         *)
(* argument's name to the contribution of target axis 0, the name being    *)
(* the given one or, for loopy.auto, <name><suffix>_offset with the full   *)
(* Split suffix of the access; an offset of 0 adds no term.                *)
(***************************************************************************)
UnsupportedMultiAxisOffset ==
    Raise("NotImplementedError", "offsets for multiple image axes")

\* the same access planned against the descriptor without its offset
WithoutOffset == get_access_info([ary EXCEPT !.offset = IntE(0)], out.index)

C9_OffsetAddedToAxisZero ==
    (out.k = "access" /\ ary.shape.k = "tuple"
     /\ WithoutOffset.k = "AccessInfo")
    => LET base == WithoutOffset
           nta == Cardinality(TargetAxes(ary.dim_tags.v))
           suffix == SplitSuffixOf(ary.dim_tags.v, IndexSeq, 1)
           offset_name == IF ary.offset = Auto
                          THEN ary.name \o suffix \o "_offset"
                          ELSE ary.offset.s
       IN  IF ary.offset = IntE(0)
           THEN /\ out.res.k = "AccessInfo"
                /\ \A t \in 1..Len(out.res.subscripts) :
                      VarsOf(out.res.subscripts[t])
                          \subseteq {"i", "s", "n"}
           ELSE IF nta > 1
           THEN out.res = UnsupportedMultiAxisOffset
           ELSE /\ out.res.k = "AccessInfo"
                /\ out.res.array_suffix = suffix
                /\ out.res.vector_index = base.vector_index
                /\ out.res.subscripts
                      = <<Add(VarE(offset_name), base.subscripts[1])>>

\* an access with a Split axis against a descriptor with offset auto got
\* the synthesized name, suffix included, on target axis 0
C9_Witness ==
    /\ out.k = "access"
    /\ ary.shape.k = "tuple"
    /\ ary.offset = Auto
    /\ out.res.k = "AccessInfo"
    /\ out.res.array_suffix = "_s1"
    /\ "a_s1_offset" \in VarsOf(out.res.subscripts[1])

(***************************************************************************)
(* C10: against a descriptor without a shape, a subscript of any length is *)
(* returned verbatim as the address contributions, with no vector lane     *)
(* (None, as for a shaped array without a VectorLane axis) and an empty    *)
(* name suffix.                                                            *)
(***************************************************************************)
C10_ShapelessAccessVerbatim ==
    (out.k = "access" /\ ary.shape = NoneV)
    => /\ out.res.k = "AccessInfo"
       /\ out.res.subscripts = IndexSeq
       /\ out.res.vector_index = NoneV
       /\ "array_suffix" \in DOMAIN out.res
       /\ out.res.array_suffix = ""

(***************************************************************************)
(* C11: map_exprs on a normalized descriptor returns a descriptor whose    *)
(* shape extents and FixedStride strides are the images under the mapper   *)
(* of the original ones, with the same name, element type, offset, number  *)
(* of axes and, per axis, the same kind of tag and target axis; this holds *)
(* for each of several successive calls.                                   *)
(***************************************************************************)
Normalized(d) ==
    /\ d.dim_tags # NoneV
    /\ \A i \in 1..Len(d.dim_tags.v) : d.dim_tags.v[i].k # "computed"

C11_MapExpressionsFrame ==
    (out.k = "mapped" /\ Normalized(out.src))
    => /\ out.res.k = "ArrayBase"
       /\ out.res.name = out.src.name
       /\ out.res.dtype = out.src.dtype
       /\ out.res.offset = out.src.offset
       /\ IF Known(out.src.shape)
          THEN /\ out.res.shape.k = "tuple"
               /\ Len(out.res.shape.v) = Len(out.src.shape.v)
               /\ \A i \in 1..Len(out.src.shape.v) :
                     out.res.shape.v[i]
                         = Apply(out.mapper, out.src.shape.v[i])
          ELSE out.res.shape = out.src.shape
       /\ Len(out.res.dim_tags.v) = Len(out.src.dim_tags.v)
       /\ \A i \in 1..Len(out.src.dim_tags.v) :
             LET old == out.src.dim_tags.v[i]
                 new == out.res.dim_tags.v[i]
             IN  /\ new.k = old.k
                 /\ old.k = "fixed" =>
                       /\ new.target_axis = old.target_axis
                       /\ new.stride = Apply(out.mapper, old.stride)

(***************************************************************************)
(* C12: when some target axis has ComputedStride tags and the shape is     *)
(* absent, is loopy.auto, or has a symbolic extent that the running        *)
(* product needs, the normalizer gives its "cannot normalize yet" answer:  *)
(* the descriptor is constructed and keeps the tag list of the request.    *)
(***************************************************************************)
\* the request passes every check of the constructor and of the normalizer
NormalizerPasses ==
    /\ PlainTagRequest
    /\ ~NonContiguous(TargetAxes(req.dim_tags.v))
    /\ Cardinality(TargetAxes(req.dim_tags.v)) \in
          req.min_target_axes..req.max_target_axes
    /\ VectorCount(req.dim_tags.v) <= 1
    /\ \A i, j \in 1..Len(req.dim_tags.v) :
          (req.dim_tags.v[i].k = "fixed" /\ req.dim_tags.v[j].k = "computed")
          => req.dim_tags.v[i].target_axis # req.dim_tags.v[j].target_axis

\* the computed axis of target axis t that is processed last: its extent
\* is folded into no stride
LastProcessed(tags, t) ==
    LET fs == {i \in ComputedGroup(tags, t) : tags[i].order = "F"}
    IN  IF fs # {} THEN Max(fs) ELSE Min(ComputedGroup(tags, t))

\* some extent that the running product of a target axis needs is symbolic
NeedsSymbolicExtent ==
    /\ req.shape.k = "tuple"
    /\ \E i \in 1..Len(req.dim_tags.v) :
          /\ req.dim_tags.v[i].k = "computed"
          /\ i # LastProcessed(req.dim_tags.v, req.dim_tags.v[i].target_axis)
          /\ ~IsInt(req.shape.v[i])

C12_CannotNormalizeYet ==
    (ary # NotYet /\ NormalizerPasses
     /\ \E i \in 1..Len(req.dim_tags.v) : req.dim_tags.v[i].k = "computed"
     /\ (req.shape = NoneV \/ req.shape = Auto \/ NeedsSymbolicExtent))
    => /\ ary.k = "ArrayBase"
       /\ ary.dim_tags = Tuple(req.dim_tags.v)

(***************************************************************************)
(* C13: when the normalizer returns a tag list, the list is as long as the *)
(* request's, holds no ComputedStride tag, holds the request's tag at      *)
(* every position of a FixedStride, Split or VectorLane tag, and holds at  *)
(* the position of a ComputedStride tag a FixedStride tag on the same      *)
(* target axis.                                                            *)
(***************************************************************************)
\* the descriptor was constructed and the normalizer returned a list
NormalizerReturnedList ==
    /\ ary.k = "ArrayBase"
    /\ PlainTagRequest
    /\ ~(req.shape = NoneV
         /\ \E i \in 1..Len(req.dim_tags.v) : req.dim_tags.v[i].k = "computed")

C13_NormalizedTagList ==
    NormalizerReturnedList
    => /\ Len(ary.dim_tags.v) = Len(req.dim_tags.v)
       /\ \A i \in 1..Len(req.dim_tags.v) :
             LET old == req.dim_tags.v[i]
                 new == ary.dim_tags.v[i]
             IN  /\ new.k # "computed"
                 /\ old.k # "computed" => new = old
                 /\ old.k = "computed" =>
                       /\ new.k = "fixed"
                       /\ new.target_axis = old.target_axis

(***************************************************************************)
(* C14: for a descriptor with a shape and offset 0 and a subscript of the  *)
(* shape's length whose Split and VectorLane indices are integers and      *)
(* whose integer strides are multiples of the vector multiplicity, the     *)
(* access planner returns one address expression per target axis; the one  *)
(* of target axis t is the sum, in axis order, of (stride // vector        *)
(* multiplicity) * index over the FixedStride axes on t; the Split indices *)
(* only make the suffix and the VectorLane index only sets the lane.       *)
(***************************************************************************)
RECURSIVE AddressSum(_, _, _, _, _)
AddressSum(tags, index, t, vs, n) ==
    IF n = 0 THEN IntE(0)
    ELSE LET rest == AddressSum(tags, index, t, vs, n - 1)
         IN  IF tags[n].k = "fixed" /\ tags[n].target_axis = t
             THEN Add(rest, Mul(FloorDiv(tags[n].stride, vs), index[n]))
             ELSE rest

\* the access is one the planner has no error for
PlannableAccess ==
    /\ out.k = "access"
    /\ ary.shape.k = "tuple"
    /\ ary.offset = IntE(0)
    /\ IndexLen = Len(ary.shape.v)
    /\ vector_size(ary).k = "int"
    /\ \A i \in 1..Len(ary.dim_tags.v) :
          LET dt == ary.dim_tags.v[i]
          IN  /\ dt.k \in {"sep", "vec"} => IsInt(IndexSeq[i])
              /\ (dt.k = "fixed" /\ IsInt(dt.stride))
                    => dt.stride.v % vector_size(ary).v = 0

C14_AddressSumPerTargetAxis ==
    PlannableAccess
    => LET tags == ary.dim_tags.v
           vecs == {i \in 1..Len(tags) : tags[i].k = "vec"}
           nta == Cardinality(TargetAxes(tags))
       IN  /\ out.res.k = "AccessInfo"
           /\ Len(out.res.subscripts) = nta
           /\ \A t \in 0..(nta - 1) :
                 out.res.subscripts[t + 1]
                     = AddressSum(tags, IndexSeq, t, vector_size(ary).v,
                                  Len(tags))
           /\ out.res.array_suffix = SplitSuffixOf(tags, IndexSeq, 1)
           /\ out.res.vector_index
                 = IF vecs = {} THEN NoneV ELSE IndexSeq[Min(vecs)]

(***************************************************************************)
(* C15: an access that meets no other error fails with the error of the    *)
(* misaligned stride when some FixedStride axis has a stride that is not a *)
(* multiple of the vector multiplicity: an integer that the multiplicity   *)
(* does not divide, or a symbolic stride, which nothing shows to be a      *)
(* multiple.                                                               *)
(***************************************************************************)
\* the stride cannot be divided by vs without truncation
NotMultiple(stride, vs) ==
    IF IsInt(stride) THEN stride.v % vs # 0 ELSE vs > 1

C15_MisalignedStrideRejected ==
    (out.k = "access" /\ ary.shape.k = "tuple"
     /\ IndexLen = Len(ary.shape.v)
     /\ vector_size(ary).k = "int"
     /\ (\A i \in 1..Len(ary.dim_tags.v) :
           ary.dim_tags.v[i].k \in {"sep", "vec"} => IsInt(IndexSeq[i]))
     /\ (\E j \in 1..Len(ary.dim_tags.v) :
           /\ ary.dim_tags.v[j].k = "fixed"
           /\ NotMultiple(ary.dim_tags.v[j].stride, vector_size(ary).v)))
    => out.res = MisalignedVectorStride

(***************************************************************************)
(* C16: the planners give no partial output.  A run of the declaration     *)
(* planner that ends in an error has yielded no declaration before it, and *)
(* a run without an error has yielded every declaration (for an integer    *)
(* shape, one array declaration per combination of Split indices); the     *)
(* access planner returns an access record or an error, never both.        *)
(***************************************************************************)
C16_NoPartialOutput ==
    /\ out.k = "decl_info" =>
          /\ out.res.err # NoneV => out.res.v = <<>>
          /\ (out.res.err = NoneV /\ IsIntShape(ary.shape)) =>
                Cardinality(MainDecls(out.res.v))
                    = SplitProduct(ary.dim_tags.v, ary.shape.v, 1)
    /\ out.k = "access" =>
          \/ out.res.k = "error"
          \/ /\ out.res.k = "AccessInfo"
             /\ ary.shape # NoneV =>
                   Len(out.res.subscripts)
                       = Cardinality(TargetAxes(ary.dim_tags.v))

\* the declarations of an array with a Split axis of two arrays were
\* planned, and the run ended in an error
C16_Witness ==
    /\ out.k = "decl_info"
    /\ ary.shape.k = "tuple"
    /\ out.res.err # NoneV
    /\ out.res.v = <<>>
    /\ \E i \in 1..Len(ary.dim_tags.v) :
          ary.dim_tags.v[i].k = "sep" /\ ary.shape.v[i] = IntE(2)

(***************************************************************************)
(* C17: a descriptor whose normalization was deferred (it still holds a    *)
(* ComputedStride tag) is not planned silently: the declaration planner    *)
(* and the access planner both end in an error.                            *)
(***************************************************************************)
Deferred(d) ==
    /\ d.k = "ArrayBase"
    /\ d.dim_tags # NoneV
    /\ \E i \in 1..Len(d.dim_tags.v) : d.dim_tags.v[i].k = "computed"

C17_DeferredNotPlanned ==
    Deferred(ary) =>
        /\ out.k = "decl_info" => out.res.err # NoneV
        /\ out.k = "access" => out.res.k = "error"

(***************************************************************************)
(* C18: the planners agree on names.  For a normalized descriptor with an  *)
(* integer shape and an access whose Split indices are integers below the  *)
(* extents, the name <name><array_suffix> of the access is the name of     *)
(* exactly one array declaration of the declaration planner, and with      *)
(* offset auto the pair yielded right after that declaration declares      *)
(* <name><array_suffix>_offset as the offset of that array.                *)
(***************************************************************************)
\* the pairs the declaration planner yields for the descriptor
PlannedDecls == decl_info(ary, FALSE, DType("int32", 1)).v

C18_PlannersAgreeOnNames ==
    (out.k = "access" /\ Normalized(ary) /\ IsIntShape(ary.shape)
     /\ out.res.k = "AccessInfo"
     /\ \A i \in 1..Len(ary.dim_tags.v) :
           ary.dim_tags.v[i].k = "sep" =>
              /\ IsInt(IndexSeq[i])
              /\ IndexSeq[i].v < ary.shape.v[i].v)
    => LET name == ary.name \o out.res.array_suffix
           mains == {j \in MainDecls(PlannedDecls) :
                        PlannedDecls[j].name = name}
       IN  /\ Cardinality(mains) = 1
           /\ ary.offset = Auto =>
                 \A j \in mains :
                    /\ j + 1 <= Len(PlannedDecls)
                    /\ PlannedDecls[j + 1].name = name \o "_offset"
                    /\ PlannedDecls[j + 1].offset_for_name = Name(name)

====
